---- MODULE Spec2Model ----
(***************************************************************************)
(* Model of the bulk-insert builder of insert.go (package bulk).           *)
(*                                                                         *)
(* A Go string is modelled as a sequence of one-character strings, so      *)
(* that slicing, trimming, searching and splitting are computed the way    *)
(* the code computes them.  The values of a row are opaque scalars; the    *)
(* model uses integers that are all different, so that any loss,           *)
(* duplication or reordering of values is visible.                         *)
(*                                                                         *)
(* One Insert call is split at its two calls to the executor (db.Prepare   *)
(* and stmt.Exec), whose outcome the builder does not control.             *)
(***************************************************************************)
EXTENDS Integers, Sequences, FiniteSets, TLC

\* ------------------------------------------------------------------ bounds
MaxLimit == 5        \* PLACEHOLDER_LIMIT ranges over 1..MaxLimit
MaxRows == 5         \* PrepareValues calls accepted on one builder
MaxInits == 2        \* Init calls on one builder
MaxInserts == 2      \* Insert calls on one builder
MaxArity == 4        \* values passed to one PrepareValues call

\* ------------------------------------------------------- strings as sequences
RECURSIVE Concat(_)
\* the concatenation of a sequence of sequences
Concat(ss) == IF ss = <<>> THEN <<>> ELSE Head(ss) \o Concat(Tail(ss))

RECURSIVE Repeat(_, _)
\* strings.Repeat(s, n), for n >= 0 (a negative count panics: see InitPanics)
Repeat(s, n) == IF n <= 0 THEN <<>> ELSE s \o Repeat(s, n - 1)

RECURSIVE Join(_, _)
\* strings.Join(elems, sep)
Join(elems, sep) ==
  IF elems = <<>> THEN <<>>
  ELSE IF Len(elems) = 1 THEN elems[1]
  ELSE elems[1] \o sep \o Join(Tail(elems), sep)

\* s[lo:hi] of Go, with 0-based lo and exclusive hi (0 <= lo <= hi <= len(s))
Slice(s, lo, hi) == SubSeq(s, lo + 1, hi)

\* whether the Go slice expression s[lo:hi] is within range (it panics otherwise)
SliceOk(s, lo, hi) == 0 <= lo /\ lo <= hi /\ hi <= Len(s)

\* whether sep occurs in s at 0-based offset k
HasAt(s, sep, k) == k + Len(sep) <= Len(s) /\ SubSeq(s, k + 1, k + Len(sep)) = sep

\* strings.Index(s, sep): the 0-based offset of the first occurrence, or -1
Index(s, sep) ==
  IF \E k \in 0..Len(s) : HasAt(s, sep, k)
  THEN CHOOSE k \in 0..Len(s) : HasAt(s, sep, k) /\ \A j \in 0..(k - 1) : ~HasAt(s, sep, j)
  ELSE -1

RECURSIVE Split(_, _)
\* strings.Split(s, sep) for a non-empty sep
Split(s, sep) ==
  LET k == Index(s, sep)
  IN IF k < 0 THEN <<s>>
     ELSE <<Slice(s, 0, k)>> \o Split(Slice(s, k + Len(sep), Len(s)), sep)

\* the number of '?' characters of s
RECURSIVE CountQ(_)
CountQ(s) ==
  IF s = <<>> THEN 0 ELSE (IF Head(s) = "?" THEN 1 ELSE 0) + CountQ(Tail(s))

\* ------------------------------------------------------------ string literals
INSERT_INTO == <<"I", "N", "S", "E", "R", "T", " ", "I", "N", "T", "O", " ">>
VALUES_ == <<")", " ", "V", "A", "L", "U", "E", "S", " ">>
ON_DUPLICATE ==
  <<" ", "O", "N", " ", "D", "U", "P", "L", "I", "C", "A", "T", "E", " ",
    "K", "E", "Y", " ", "U", "P", "D", "A", "T", "E", " ">>
EQ_VALUES == <<"=", "V", "A", "L", "U", "E", "S", "(">>

\* ---------------------------------------------------------------- the inputs
TableNames == {<<"t">>}
ColumnLists ==
  { <<>>,
    << <<"i", "d">> >>,
    << <<"a">>, <<"b">> >>,
    << <<"x">>, <<"y">>, <<"z">> >> }
\* the values a caller passes for the next row: n values, all different from
\* every value passed before
RowValues(n, r) == [j \in 1..n |-> 10 * (r + 1) + j]

VARIABLES
  PLACEHOLDER_LIMIT,     \* line 11: the constant (60000 in the source), here any of 1..MaxLimit
  initStr, placeholderStr, vals, rows, valuesPerRow, placeholderStrHelper,
  pc,                    \* "new", "idle", "assemble", "prepare", "exec" or "panic"
  replaceOnDuplicate,    \* the argument of the running Insert
  batched, batchs, i, str, stmtVals,   \* the path and the locals of the running Insert
  calls,                 \* the calls the last Insert made to the executor
  ret,                   \* the last call made to the builder and what it returned
  cols, accepted,        \* history: the columns of the last Init, the rows accepted since
  inits, inserts, total  \* history: the Init, Insert and accepted PrepareValues calls so far

bulk == <<initStr, placeholderStr, vals, rows, valuesPerRow, placeholderStrHelper>>
locals == <<replaceOnDuplicate, batched, batchs, i, str, stmtVals>>
hist == <<cols, accepted, inits, inserts, total>>
vars == <<PLACEHOLDER_LIMIT, bulk, pc, locals, calls, ret, hist>>

\* The zero value of Bulk, before any call.
Init ==
  /\ PLACEHOLDER_LIMIT \in 1..MaxLimit
  /\ initStr = <<>> /\ placeholderStr = <<>> /\ vals = <<>> /\ rows = 0
  /\ valuesPerRow = 0 /\ placeholderStrHelper = <<>>
  /\ pc = "new"
  /\ replaceOnDuplicate = FALSE /\ batched = FALSE /\ batchs = 0 /\ i = 0 /\ str = <<>> /\ stmtVals = <<>>
  /\ calls = <<>>
  /\ ret = [op |-> "none", err |-> "nil"]
  /\ cols = <<>> /\ accepted = <<>> /\ inits = 0 /\ inserts = 0 /\ total = 0

\* ------------------------------------------------------------------ Bulk.Init
\* line 29
InitStr(tableName, s) ==
  INSERT_INTO \o tableName \o <<"(">> \o Join(s, <<",", " ">>) \o VALUES_

\* line 33: strings.Repeat panics on a negative count
InitPanics(s) == Len(s) - 1 < 0

\* line 33
PlaceholderStrHelper(n) == <<"(", "?">> \o Repeat(<<",", "?">>, n - 1) \o <<")", ",">>

BulkInit(tableName, s) ==
  /\ pc \in {"new", "idle"}
  /\ inits < MaxInits
  /\ initStr' = InitStr(tableName, s)
  /\ vals' = <<>>
  /\ valuesPerRow' = Len(s)
  /\ rows' = 0
  /\ IF InitPanics(s)
     THEN /\ pc' = "panic"
          /\ ret' = [op |-> "Init", err |-> "panic"]
          /\ UNCHANGED placeholderStrHelper
     ELSE /\ pc' = "idle"
          /\ ret' = [op |-> "Init", err |-> "nil"]
          /\ placeholderStrHelper' = PlaceholderStrHelper(Len(s))
  /\ cols' = s /\ accepted' = <<>> /\ inits' = inits + 1
  /\ calls' = <<>>
  /\ UNCHANGED <<PLACEHOLDER_LIMIT, placeholderStr, locals, inserts, total>>

\* --------------------------------------------------------- Bulk.PrepareValues
\* a row shorter than valuesPerRow passes the check
ArityMismatchOnlyLonger(v) == Len(v) > valuesPerRow

\* line 123
ArityMismatch(v) == Len(v) # valuesPerRow

\* the placeholder group is assigned instead of appended
PlaceholderStrAssigned == placeholderStrHelper

\* line 126
PlaceholderStrAppended == placeholderStr \o placeholderStrHelper

\* line 127
ValsAppended(v) == vals \o v

PrepareValues(v) ==
  /\ pc = "idle"
  /\ IF ArityMismatch(v)
     THEN /\ ret' = [op |-> "PrepareValues", err |-> "arity"]
          /\ UNCHANGED <<bulk, accepted, total>>
     ELSE /\ total < MaxRows
          /\ placeholderStr' = PlaceholderStrAppended
          /\ vals' = ValsAppended(v)
          /\ rows' = rows + 1
          /\ ret' = [op |-> "PrepareValues", err |-> "nil"]
          /\ accepted' = Append(accepted, v)
          /\ total' = total + 1
          /\ UNCHANGED <<initStr, valuesPerRow, placeholderStrHelper>>
  /\ calls' = <<>>
  /\ UNCHANGED <<PLACEHOLDER_LIMIT, pc, locals, cols, inits, inserts>>

\* ---------------------------------------------------------------- Bulk.Insert
\* helper.RoundUp(float64(a) / float64(b)): the quotient rounded up to an integer
RoundUp(a, b) == (a + b - 1) \div b

\* the quotient is truncated instead of rounded up
BatchsTruncated == Len(vals) \div PLACEHOLDER_LIMIT

\* one batch more than the truncated quotient
BatchsOneMore == Len(vals) \div PLACEHOLDER_LIMIT + 1

\* lines 73-74
Batchs == RoundUp(Len(vals), PLACEHOLDER_LIMIT)

\* line 76
RowsPerBatch == PLACEHOLDER_LIMIT \div valuesPerRow

\* the width of a group without its separator
CharactersPerPlaceholderNoSeparator == 2 * valuesPerRow + 1

\* line 77
CharactersPerPlaceholder == 2 * (valuesPerRow + 1)

\* line 78
CharactersPerBatch == RowsPerBatch * CharactersPerPlaceholder

\* line 82: whether batch k of n is the last one
IsLastBatch(k, n) == k = n - 1

\* lines 83 and 86: the slice of placeholderStr of batch k of n
BatchPlaceholders(k, n) ==
  IF IsLastBatch(k, n)
  THEN Slice(placeholderStr, CharactersPerBatch * k, Len(placeholderStr))
  ELSE Slice(placeholderStr, CharactersPerBatch * k, CharactersPerBatch * (k + 1))

\* lines 83 and 86: whether that slice expression is out of range
BatchPlaceholdersPanics(k, n) ==
  IF IsLastBatch(k, n)
  THEN ~SliceOk(placeholderStr, CharactersPerBatch * k, Len(placeholderStr))
  ELSE ~SliceOk(placeholderStr, CharactersPerBatch * k, CharactersPerBatch * (k + 1))

\* the slice of vals taken at row offsets instead of value offsets
BatchValsAtRowOffsets(k, n) ==
  IF IsLastBatch(k, n)
  THEN Slice(vals, RowsPerBatch * k, Len(vals))
  ELSE Slice(vals, RowsPerBatch * k, RowsPerBatch * (k + 1))

\* lines 84 and 87: the slice of vals of batch k of n
BatchVals(k, n) ==
  IF IsLastBatch(k, n)
  THEN Slice(vals, RowsPerBatch * valuesPerRow * k, Len(vals))
  ELSE Slice(vals, RowsPerBatch * valuesPerRow * k, RowsPerBatch * valuesPerRow * (k + 1))

\* lines 43, 56, 92 and 102: s[0 : len(s)-1]
TrimLast(s) == Slice(s, 0, Len(s) - 1)

\* lines 48-50 and 94-96: the text between the first "(" and the first ")" of initStr
ColumnsStr == Slice(initStr, Index(initStr, <<"(">>) + 1, Index(initStr, <<")">>))

RECURSIVE EndStrLoop(_)
\* lines 53-55 and 99-101: the loop over the columns
EndStrLoop(columns) ==
  IF columns = <<>> THEN <<>>
  ELSE Head(columns) \o EQ_VALUES \o Head(columns) \o <<")", ",">> \o EndStrLoop(Tail(columns))

\* lines 52-56 and 98-102: the upsert clause over the columns split off with sep
EndStr(sep) == TrimLast(ON_DUPLICATE \o EndStrLoop(Split(ColumnsStr, sep)))

\* line 51: the separator the single-statement path splits the columns with
SingleSep == <<",">>

\* line 97: the separator the batched path splits the columns with
BatchSep == <<",", " ">>

\* lines 46-58: the statement of the single-statement path, over the trimmed placeholders p
SingleStr(p, upsert) ==
  IF upsert THEN initStr \o p \o EndStr(SingleSep) ELSE initStr \o p

\* lines 83-104: the statement of batch k of n
BatchStr(k, n, upsert) ==
  LET s == TrimLast(initStr \o BatchPlaceholders(k, n))
  IN IF upsert THEN s \o EndStr(BatchSep) ELSE s

\* the last two characters are cut off
PlaceholderStrTrimmedTwice == TrimLast(TrimLast(placeholderStr))

\* line 43
PlaceholderStrTrimmed == TrimLast(placeholderStr)

\* line 41
SinglePath == Len(vals) < PLACEHOLDER_LIMIT

\* lines 38-46 and 69-78: the call, up to the first statement or the loop
InsertBegin(upsert) ==
  /\ pc = "idle"
  /\ inserts < MaxInserts
  /\ inserts' = inserts + 1
  /\ replaceOnDuplicate' = upsert
  /\ calls' = <<>>
  /\ i' = 0
  /\ stmtVals' = <<>>
  /\ IF SinglePath
     THEN /\ batched' = FALSE
          /\ batchs' = 0
          /\ IF ~SliceOk(placeholderStr, 0, Len(placeholderStr) - 1)
             THEN /\ pc' = "panic"
                  /\ ret' = [op |-> "Insert", err |-> "panic"]
                  /\ UNCHANGED <<placeholderStr, str>>
             ELSE /\ placeholderStr' = PlaceholderStrTrimmed
                  /\ str' = SingleStr(PlaceholderStrTrimmed, upsert)
                  /\ pc' = "prepare"
                  /\ ret' = [op |-> "Insert", err |-> "running"]
     ELSE /\ batched' = TRUE
          /\ batchs' = Batchs
          /\ pc' = "assemble"
          /\ ret' = [op |-> "Insert", err |-> "running"]
          /\ UNCHANGED <<placeholderStr, str>>
  /\ UNCHANGED <<PLACEHOLDER_LIMIT, initStr, vals, rows, valuesPerRow,
                 placeholderStrHelper, cols, accepted, inits, total>>

\* lines 80-104: the statement and the values of batch i
Assemble ==
  /\ pc = "assemble"
  /\ IF BatchPlaceholdersPanics(i, batchs)
     THEN /\ pc' = "panic"
          /\ ret' = [op |-> "Insert", err |-> "panic"]
          /\ UNCHANGED <<str, stmtVals>>
     ELSE /\ str' = BatchStr(i, batchs, replaceOnDuplicate)
          /\ stmtVals' = BatchVals(i, batchs)
          /\ pc' = "prepare"
          /\ UNCHANGED ret
  /\ UNCHANGED <<PLACEHOLDER_LIMIT, bulk, replaceOnDuplicate, batched, batchs, i,
                 calls, hist>>

\* lines 62, 67, 108, 113 and 117: Insert returns err; its locals are gone
Return(err) ==
  /\ pc' = "idle"
  /\ ret' = [op |-> "Insert", err |-> err]
  /\ replaceOnDuplicate' = FALSE /\ batched' = FALSE /\ batchs' = 0 /\ i' = 0
  /\ str' = <<>> /\ stmtVals' = <<>>

\* the error of the executor is not looked at
ErrIgnored(ok) == FALSE

\* lines 61, 66, 107 and 112: err != nil
ErrNotNil(ok) == ~ok

\* lines 60-63 and 106-109: db.Prepare(str), which succeeds or fails
Prepare(ok) ==
  /\ pc = "prepare"
  /\ calls' = Append(calls, [op |-> "prepare", batch |-> i, str |-> str,
                            vals |-> <<>>, ok |-> ok])
  /\ IF ErrNotNil(ok)
     THEN Return("prepare")
     ELSE pc' = "exec" /\ UNCHANGED <<ret, locals>>
  /\ UNCHANGED <<PLACEHOLDER_LIMIT, bulk, hist>>

\* the values of the batch loop are handed over on both paths
ExecValsOfLoop == stmtVals

\* line 65 and line 111: the values handed to stmt.Exec
ExecVals == IF batched THEN stmtVals ELSE vals

\* the loop test lets one batch too many through
LoopContinuesOneMore(k) == batched /\ k + 1 <= batchs

\* line 79: whether the loop goes on after batch k
LoopContinues(k) == batched /\ k + 1 < batchs

\* lines 65-68 and 111-117: stmt.Exec(vals...), which succeeds or fails
Exec(ok) ==
  /\ pc = "exec"
  /\ calls' = Append(calls, [op |-> "execute", batch |-> i, str |-> str,
                            vals |-> ExecVals, ok |-> ok])
  /\ IF ErrNotNil(ok)
     THEN Return("exec")
     ELSE IF LoopContinues(i)
     THEN /\ pc' = "assemble"
          /\ i' = i + 1
          /\ UNCHANGED <<ret, replaceOnDuplicate, batched, batchs, str, stmtVals>>
     ELSE Return("nil")
  /\ UNCHANGED <<PLACEHOLDER_LIMIT, bulk, hist>>

Next ==
  \/ \E t \in TableNames, s \in ColumnLists : BulkInit(t, s)
  \/ \E n \in 0..MaxArity : PrepareValues(RowValues(n, rows))
  \/ \E upsert \in BOOLEAN : InsertBegin(upsert)
  \/ Assemble
  \/ \E ok \in BOOLEAN : Prepare(ok)
  \/ \E ok \in BOOLEAN : Exec(ok)

Spec == Init /\ [][Next]_vars

\* ===================================================================== claims
\* the statements handed to db.Prepare and the value lists handed to stmt.Exec
\* by the Insert call that is running or was the last to return
Prepared == SelectSeq(calls, LAMBDA c : c.op = "prepare")
Executed == SelectSeq(calls, LAMBDA c : c.op = "execute")
ExecutedVals == [k \in 1..Len(Executed) |-> Executed[k].vals]

\* an Insert call has just returned err
Returned(err) == pc = "idle" /\ ret = [op |-> "Insert", err |-> err]

\* the lifecycle of the builder the specification describes: initialized once,
\* rows accumulated, and Insert called once, as the terminal operation
Lifecycle == inits = 1 /\ inserts <= 1

\* C1: with 1 <= valuesPerRow <= PLACEHOLDER_LIMIT, every value list handed to
\* stmt.Exec holds at most PLACEHOLDER_LIMIT values.
C1_BatchWithinLimit ==
  (1 <= valuesPerRow /\ valuesPerRow <= PLACEHOLDER_LIMIT)
    => \A k \in 1..Len(Executed) : Len(Executed[k].vals) <= PLACEHOLDER_LIMIT

\* C2: after a fully successful Insert with len(vals) >= PLACEHOLDER_LIMIT, the
\* value lists handed to stmt.Exec, concatenated in batch order, are the
\* accumulated values, and every batch holds whole rows only.
C2_BatchesPartitionVals ==
  (Returned("nil") /\ Len(vals) >= PLACEHOLDER_LIMIT)
    => /\ Concat(ExecutedVals) = vals
       /\ vals = Concat(accepted)
       /\ \A k \in 1..Len(Executed) : Len(Executed[k].vals) % valuesPerRow = 0
       /\ \A k \in 1..Len(Executed) : Executed[k].batch = k - 1

\* C2 witness: a successful Insert of three batches whose last batch holds the
\* remainder, more rows than the batches before it
C2_Witness ==
  /\ Returned("nil") /\ Len(vals) >= PLACEHOLDER_LIMIT
  /\ Len(Executed) = 3
  /\ Len(Executed[3].vals) > Len(Executed[1].vals)
  /\ Len(Executed[1].vals) > 0

\* the number of placeholder groups of a statement: the occurrences of "(?"
Groups(s) == Cardinality({k \in 0..Len(s) : HasAt(s, <<"(", "?">>, k)})

\* a statement and the values bound to it agree, placeholder by placeholder
Aligned(s, v) == CountQ(s) = Len(v) /\ Len(v) = valuesPerRow * Groups(s)

C4_RejectedRowChangesNothing ==
  [][\A n \in 0..MaxArity :
       (n # valuesPerRow /\ PrepareValues(RowValues(n, rows)))
         => /\ ret' = [op |-> "PrepareValues", err |-> "arity"]
            /\ UNCHANGED <<vals, placeholderStr, rows>>]_vars

\* C4 witness: a row was rejected by a builder that holds rows, after an Insert
C4_Witness ==
  /\ ret = [op |-> "PrepareValues", err |-> "arity"]
  /\ rows >= 2 /\ inserts >= 1

\* C5: after Init and PrepareValues calls only, N of them accepted, rows is N,
\* vals is the accepted rows in order and placeholderStr is N placeholder groups.
C5_AccumulatedState ==
  (inits = 1 /\ inserts = 0 /\ pc = "idle")
    => /\ rows = Len(accepted)
       /\ vals = Concat(accepted)
       /\ Len(vals) = rows * valuesPerRow
       /\ placeholderStr = Repeat(placeholderStrHelper, rows)

\* C5 witness: three rows accepted and one rejected since Init
C5_Witness ==
  /\ inits = 1 /\ inserts = 0 /\ rows = 3
  /\ ret = [op |-> "PrepareValues", err |-> "arity"]

\* an Insert call is between its first statement and its return
Running == pc \in {"assemble", "prepare", "exec"}

\* call j of an Insert is what the sequence prepare(0), execute(0), prepare(1),
\* execute(1), ... has at position j
InOrder(j) ==
  /\ calls[j].op = (IF j % 2 = 1 THEN "prepare" ELSE "execute")
  /\ calls[j].batch = (j - 1) \div 2

\* C6: when prepare or execute fails on a batch, every batch before it was
\* prepared and executed, no call follows the failed one, and Insert returns
\* the error.
C6_FailureStopsInsert ==
  \A k \in 1..Len(calls) :
    ~calls[k].ok
      => /\ k = Len(calls)
         /\ Returned(IF calls[k].op = "prepare" THEN "prepare" ELSE "exec")
         /\ InOrder(k)
         /\ \A j \in 1..(k - 1) : calls[j].ok /\ InOrder(j)

\* C6 witness: prepare failed on the second of three batches, after the first
\* batch was executed
C6_Witness ==
  /\ Returned("prepare") /\ Len(calls) = 3
  /\ RoundUp(Len(vals), PLACEHOLDER_LIMIT) = 3
  /\ calls[2].op = "execute" /\ calls[2].ok /\ ~calls[3].ok

\* C7 (order): the calls of an Insert are prepare(0), execute(0), prepare(1),
\* execute(1), ..., each batch once, a call made only after all calls before it
\* succeeded, and the position of the call is that of the batch loop.
C7_Order ==
  /\ \A j \in 1..Len(calls) : InOrder(j) /\ (j < Len(calls) => calls[j].ok)
  /\ pc \in {"assemble", "prepare"} => Len(calls) = 2 * i
  /\ pc = "exec" => Len(calls) = 2 * i + 1 /\ calls[Len(calls)].ok

\* the most steps a running Insert has left: three for each batch not started
\* and those left of the batch it is at
Remaining ==
  IF ~Running THEN 0
  ELSE 3 * ((IF batched THEN batchs ELSE 1) - i)
         - (CASE pc = "assemble" -> 0 [] pc = "prepare" -> 1 [] pc = "exec" -> 2)

\* C7: the calls are made in order, the batch index never goes back during a
\* call, and a running Insert ends: it has a bounded number of steps left, and
\* every step it takes leaves it fewer.
C7_SequentialAndEnds ==
  /\ []C7_Order
  /\ [][(Running /\ Running') => i' >= i]_vars
  /\ [](Running => Remaining > 0)
  /\ [][Running => Remaining' < Remaining]_vars

\* C7 witness: the third batch is being executed
C7_Witness == pc = "exec" /\ i = 2 /\ Len(calls) = 5

\* the upsert clause over the columns given to Init
RECURSIVE ColumnAssignments(_)
ColumnAssignments(c) ==
  IF c = <<>> THEN <<>>
  ELSE <<Head(c) \o EQ_VALUES \o Head(c) \o <<")">> >> \o ColumnAssignments(Tail(c))
UpsertClause == ON_DUPLICATE \o Join(ColumnAssignments(cols), <<",">>)

\* s ends with e
EndsWith(s, e) == Len(e) <= Len(s) /\ SubSeq(s, Len(s) - Len(e) + 1, Len(s)) = e

\* C8: with upsert, every statement ends with " ON DUPLICATE KEY UPDATE " and
\* c=VALUES(c) for each column c given to Init, in order, joined by commas.
C8_UpsertClause ==
  (pc = "prepare" /\ replaceOnDuplicate) => EndsWith(str, UpsertClause)

\* C9: with at least one row and len(vals) < PLACEHOLDER_LIMIT, Insert makes one
\* prepare call and, when it succeeds, one execute call, with all the values.
C9_SingleStatement ==
  (pc = "idle" /\ ret.op = "Insert" /\ rows >= 1 /\ Len(vals) < PLACEHOLDER_LIMIT)
    => /\ Len(Prepared) = 1
       /\ calls[1].op = "prepare"
       /\ IF calls[1].ok
          THEN /\ Len(calls) = 2 /\ calls[2].op = "execute"
               /\ calls[2].vals = vals /\ vals = Concat(accepted)
          ELSE Len(calls) = 1

\* C9 witness: the single statement of three rows was prepared and executed
C9_Witness ==
  /\ pc = "idle" /\ ret.op = "Insert" /\ rows = 3 /\ Len(vals) < PLACEHOLDER_LIMIT
  /\ Len(calls) = 2

\* the rows of vals from row lo up to, not including, row hi
RowsOf(lo, hi) == Slice(vals, lo * valuesPerRow, hi * valuesPerRow)

\* C10: with len(vals) >= PLACEHOLDER_LIMIT a fully successful Insert issues
\* ceil(len(vals) / PLACEHOLDER_LIMIT) statements, every one but the last of
\* floor(PLACEHOLDER_LIMIT / valuesPerRow) rows; limit 5 and 4 rows of 2 values
\* give rows 0-1 and rows 2-3; len(vals) = PLACEHOLDER_LIMIT gives one statement.
C10_BatchCount ==
  (Returned("nil") /\ Len(vals) >= PLACEHOLDER_LIMIT)
    => /\ Len(Prepared) = Len(Executed)
       /\ Len(Executed) * PLACEHOLDER_LIMIT >= Len(vals)
       /\ (Len(Executed) - 1) * PLACEHOLDER_LIMIT < Len(vals)
       /\ \A k \in 1..(Len(Executed) - 1) :
            Executed[k].vals = RowsOf((k - 1) * (PLACEHOLDER_LIMIT \div valuesPerRow),
                                     k * (PLACEHOLDER_LIMIT \div valuesPerRow))
       /\ (PLACEHOLDER_LIMIT = 5 /\ valuesPerRow = 2 /\ rows = 4)
            => ExecutedVals = <<RowsOf(0, 2), RowsOf(2, 4)>>
       /\ Len(vals) = PLACEHOLDER_LIMIT
            => ExecutedVals = <<vals>>

\* C10 witness: the Insert of 4 rows of 2 values under limit 5 succeeded
C10_Witness ==
  /\ Returned("nil") /\ PLACEHOLDER_LIMIT = 5 /\ valuesPerRow = 2 /\ rows = 4
  /\ Len(Executed) = 2

\* the placeholder group of one row of n values, without a separator: (?,...,?)
Group(n) == <<"(">> \o Join([j \in 1..n |-> <<"?">>], <<",">>) \o <<")">>

\* the statement without upsert clause for the value list v: the prefix and one
\* group for each valuesPerRow values, joined by commas
PlainStatement(v) ==
  initStr \o Join([k \in 1..(Len(v) \div valuesPerRow) |-> Group(valuesPerRow)], <<",">>)

\* C11: without upsert, every statement handed to the executor is the statement
\* prefix followed by the placeholder groups of its batch, joined by single
\* commas, with nothing after the last group.  (Stated for a builder that was
\* initialized once and has its one Insert running.)
C11_PlainStatementText ==
  (Lifecycle /\ pc \in {"prepare", "exec"} /\ ~replaceOnDuplicate)
    => str = PlainStatement(ExecVals)

\* C12: when valuesPerRow exceeds PLACEHOLDER_LIMIT, Insert makes no call to
\* the executor.  (Stated for a builder that was initialized once.)
C12_NoCallWhenRowExceedsLimit ==
  (Lifecycle /\ valuesPerRow > PLACEHOLDER_LIMIT)
    => (calls = <<>> /\ pc \notin {"prepare", "exec"})

WholeGroups(s) ==
  /\ s # <<>>
  /\ s = Repeat(placeholderStrHelper, Len(s) \div Len(placeholderStrHelper))

\* C14: the one-row placeholder group has valuesPerRow placeholders and
\* 2 * (valuesPerRow + 1) characters, and in the batched path the placeholder
\* slice of every batch, before trimming, is made of whole groups.  (Stated for
\* a builder that was initialized once and has its one Insert running.)
C14_SlicesOnGroupBoundaries ==
  (Lifecycle /\ Running /\ batched)
    => /\ CountQ(placeholderStrHelper) = valuesPerRow
       /\ Len(placeholderStrHelper) = 2 * (valuesPerRow + 1)
       /\ \A k \in 0..(batchs - 1) : WholeGroups(BatchPlaceholders(k, batchs))

C16_ZeroRowInsertReturns ==
  (Lifecycle /\ valuesPerRow >= 1 /\ rows = 0 /\ ret.op = "Insert")
    => /\ pc # "panic"
       /\ pc \in {"prepare", "exec"} => Groups(str) >= 1
       /\ \A k \in 1..Len(calls) : Groups(calls[k].str) >= 1

\* C17: after Init the builder holds no rows, no values and no placeholder
\* text, and whenever no Insert has been called since, placeholderStr holds one
\* group for each accumulated row.
C17_InitResets ==
  /\ (pc = "idle" /\ ret.op = "Init")
       => (rows = 0 /\ vals = <<>> /\ placeholderStr = <<>>)
  /\ (pc = "idle" /\ inserts = 0)
       => placeholderStr = Repeat(placeholderStrHelper, rows)
====
